---- MODULE Spec2Model ----
(***************************************************************************)
(* A model of the CVP engine of src/CVP.py                                 *)
(* (cvp_analysis_with_full_sliding_fee, plot_profit_per_product), of the   *)
(* caller that owns its inputs, and of the dashboard of src/CVP_Dash.py    *)
(* (update_graph), which edits the shared inputs and calls the engine.     *)
(*                                                                         *)
(* Numbers.  The engine computes with Python floats: binary floating point *)
(* with a 53-bit significand, every operation rounded to nearest, ties to  *)
(* even.  The model keeps that arithmetic and narrows the significand to   *)
(* Prec bits, so that the products stay inside TLC's integers.  A number   *)
(* is the pair (m, e) standing for m * 2^e, written in the one normal form *)
(* where m is odd (or m = 0 and e = 0) and |m| < 2^Prec.                   *)
(***************************************************************************)
EXTENDS Integers, Sequences, FiniteSets

\* Width of the significand (53 in CPython's float).
Prec == 3

Abs(x) == IF x < 0 THEN -x ELSE x

Sgn(x) == IF x < 0 THEN -1 ELSE 1

RECURSIVE BitLen(_)
\* Number of binary digits of a natural number.
BitLen(a) == IF a = 0 THEN 0 ELSE 1 + BitLen(a \div 2)

\* A cell value: a number, a string, pandas' NaN, or Python's None.
Num(m, e) == [t |-> "num", m |-> m, e |-> e, s |-> ""]

Str(x) == [t |-> "str", m |-> 0, e |-> 0, s |-> x]

NaN == [t |-> "nan", m |-> 0, e |-> 0, s |-> ""]

None == [t |-> "none", m |-> 0, e |-> 0, s |-> ""]

RECURSIVE Norm(_, _)
\* The normal form of m * 2^e: trailing zero bits of m moved into e.
Norm(m, e) ==
    IF m = 0 THEN Num(0, 0)
    ELSE IF m % 2 = 0 THEN Norm(m \div 2, e + 1)
    ELSE Num(m, e)

\* M * 2^E rounded to Prec significant bits, to nearest, ties to even.
Round(M, E) ==
    LET A == Abs(M)
        k == BitLen(A) - Prec
    IN  IF k <= 0 THEN Norm(M, E)
        ELSE LET q == A \div (2 ^ k)
                 r == A % (2 ^ k)
                 half == 2 ^ (k - 1)
                 up == r > half \/ (r = half /\ q % 2 = 1)
             IN  Norm(Sgn(M) * (IF up THEN q + 1 ELSE q), E + k)

Ex(a) == a.e

\* float + float
Add(a, b) ==
    LET e == IF Ex(a) < Ex(b) THEN Ex(a) ELSE Ex(b)
    IN  IF a.m = 0 THEN b
        ELSE IF b.m = 0 THEN a
        ELSE Round(a.m * 2 ^ (Ex(a) - e) + b.m * 2 ^ (Ex(b) - e), e)

Neg(a) == [a EXCEPT !.m = -a.m]

\* float - float
Sub(a, b) == Add(a, Neg(b))

\* float * float
Mul(a, b) == Round(a.m * b.m, Ex(a) + Ex(b))

\* float / float, b # 0: the quotient to Prec + 2 bits and a sticky bit.
Div(a, b) ==
    LET s == 2 * Prec + 2
        A == Abs(a.m) * 2 ^ s
        q == A \div Abs(b.m)
        sticky == IF A % Abs(b.m) = 0 THEN 0 ELSE 1
    IN  Round(Sgn(a.m) * Sgn(b.m) * (2 * q + sticky), Ex(a) - Ex(b) - s - 1)

\* float(n) for an int n
FromInt(n) == Round(n, 0)

IsZero(a) == a.m = 0


(***************************************************************************)
(* Python dicts keep insertion order: a dict is a sequence of              *)
(* [k |-> key, v |-> value] items with distinct keys.                      *)
(***************************************************************************)
Keys(d) == [j \in 1..Len(d) |-> d[j].k]

HasKey(d, key) == \E j \in 1..Len(d) : d[j].k = key

\* d[key], for a key of d
Get(d, key) == d[CHOOSE j \in 1..Len(d) : d[j].k = key].v

\* d[key] = value: an existing key keeps its place, a new one goes last.
DictSet(d, key, value) ==
    IF HasKey(d, key)
    THEN [j \in 1..Len(d) |-> IF d[j].k = key THEN [k |-> key, v |-> value] ELSE d[j]]
    ELSE Append(d, [k |-> key, v |-> value])

RECURSIVE DictUpdate(_, _)
\* The items of a dict display, left to right: {**d, k1: v1, ...}.
DictUpdate(d, items) ==
    IF items = <<>> THEN d
    ELSE DictUpdate(DictSet(d, Head(items).k, Head(items).v), Tail(items))

(***************************************************************************)
(* The inputs the model draws from.                                        *)
(***************************************************************************)
\* Longest services list.
MaxServices == 3

\* Most calls of the engine by one caller.
MaxCalls == 3

ServiceNames == <<"A", "B", "C", "D", "E">>

Half == Num(1, -1)

Quarter == Num(1, -2)

\* A well-formed tier and the two malformed ones.
Tier(price, percentage) == <<[k |-> "price", v |-> price], [k |-> "percentage", v |-> percentage]>>

NoPrice(percentage) == <<[k |-> "percentage", v |-> percentage]>>

NoPercentage(price) == <<[k |-> "price", v |-> price]>>

\* Tier sets: the shape of the repository's own (slides, then Full Charges),
\* one with other names in another order, one with the names of that one in
\* yet another order, two with a malformed tier, one whose tier is named
\* like a result column.
TiersStandard ==
    <<[k |-> "Slide A", v |-> Tier(FromInt(5), Half)],
      [k |-> "Full Charges", v |-> Tier(FromInt(5), Half)]>>

TiersOther ==
    <<[k |-> "Full Charges", v |-> Tier(FromInt(3), Quarter)],
      [k |-> "Slide B", v |-> Tier(FromInt(1), FromInt(1))],
      [k |-> "Slide A", v |-> Tier(FromInt(1), Half)]>>

TiersReordered ==
    <<[k |-> "Slide A", v |-> Tier(FromInt(3), Half)],
      [k |-> "Slide B", v |-> Tier(FromInt(1), Half)]>>

TiersNoPrice == <<[k |-> "Slide A", v |-> NoPrice(Half)]>>

TiersNoPercentage ==
    <<[k |-> "Slide A", v |-> Tier(FromInt(5), Half)],
      [k |-> "Slide B", v |-> NoPercentage(FromInt(3))]>>

TiersVolume ==
    <<[k |-> "Volume", v |-> Tier(FromInt(3), Half)],
      [k |-> "Slide A", v |-> Tier(FromInt(1), Half)]>>

\* What one service brings: its volume, its variable cost per unit and its
\* entry of the schedule (absent: the schedule has no entry for it).
Profile(volume, cost, present, tiers) ==
    [volume |-> volume, variable_cost_per_unit |-> cost, present |-> present, tiers |-> tiers]

Profiles ==
    { Profile(FromInt(2), FromInt(4), TRUE, TiersStandard),
      Profile(FromInt(0), FromInt(4), TRUE, TiersStandard),
      Profile(FromInt(3), FromInt(1), TRUE, TiersOther),
      Profile(FromInt(2), FromInt(1), TRUE, TiersReordered),
      Profile(FromInt(2), FromInt(1), TRUE, TiersVolume),
      Profile(FromInt(2), FromInt(4), TRUE, TiersNoPrice),
      Profile(FromInt(3), FromInt(1), TRUE, TiersNoPercentage),
      Profile(FromInt(2), FromInt(4), FALSE, <<>>) }

FixedCosts == {FromInt(-7), FromInt(1), FromInt(7)}


(***************************************************************************)
(* State.  services, sliding_fee_schedule and total_fixed_costs are the    *)
(* caller's objects, passed to the engine by reference.  service_data,     *)
(* fixed_cost_per_service and tier_revenues are the engine's locals; idx   *)
(* counts the services the loop has finished.  results_df and raised are   *)
(* what the caller gets back, bars what the presenter drew.  log records   *)
(* every finished call: the arguments it was given and its outcome.        *)
(* callbacks holds, for every request the dashboard serves, the frame of   *)
(* its update_graph: the arguments, the locals and the position; the       *)
(* dashboard's services and sliding_fee_schedule are the module's own,     *)
(* shared by all requests.                                                 *)
(***************************************************************************)
VARIABLES services, sliding_fee_schedule, total_fixed_costs,
          pc, idx, service_data, fixed_cost_per_service, tier_revenues,
          results_df, raised, bars, log, callbacks

inputs == <<services, sliding_fee_schedule, total_fixed_costs>>

locals == <<idx, service_data, fixed_cost_per_service, tier_revenues>>

vars == <<services, sliding_fee_schedule, total_fixed_costs,
          pc, idx, service_data, fixed_cost_per_service, tier_revenues,
          results_df, raised, bars, log, callbacks>>

NoError == [type |-> "", arg |-> ""]

ZeroDivisionError == [type |-> "ZeroDivisionError", arg |-> "division by zero"]

KeyError(key) == [type |-> "KeyError", arg |-> key]

\* An arithmetic operator applied to None.
TypeError == [type |-> "TypeError", arg |-> "unsupported operand type(s)"]

IsNone(a) == a.t = "none"

\* results_df before the engine has returned, bars before the plot.
NoFrame == [columns |-> <<>>, rows |-> <<>>]

FullCharges == "Full Charges"

\* The requests the dashboard serves at a time.
Callbacks == {1, 2}

\* tuple index out of range
IndexError == [type |-> "IndexError", arg |-> "tuple index out of range"]

\* What update_graph gives back: nothing yet, dash.no_update for both
\* outputs, or the figure and the text of the KPI.
NoOutput == [kind |-> "none", figure |-> <<>>, children |-> [sign |-> "", cents |-> 0]]

NoUpdate == [kind |-> "no_update", figure |-> <<>>, children |-> [sign |-> "", cents |-> 0]]

Update(fig, text) == [kind |-> "update", figure |-> fig, children |-> text]

\* The frame of update_graph before the request has come.
Idle ==
    [pc |-> "idle", n_clicks |-> 0, args |-> <<>>, arg_index |-> 0, i |-> 0, j |-> 0,
     fixed_costs |-> None, fixed_cost_per_service |-> None, idx |-> 0,
     service_data |-> <<>>, tier_revenues |-> <<>>, results_df |-> NoFrame,
     total_profitability |-> None, raised |-> NoError, output |-> NoOutput]

\* A slip: the pool charged to every service whole.
FixedCostUndivided(total, num_services) == total

\* total_fixed_costs / num_services, the divisor not zero
FixedCostPerService(total, num_services) == Div(total, FromInt(num_services))

\* The error the division raises: TypeError for None / n, ZeroDivisionError
\* for a number / 0.
FixedCostError(total, num_services) ==
    IF IsNone(total) THEN TypeError
    ELSE IF num_services = 0 THEN ZeroDivisionError
    ELSE NoError

\* A slip: a missing price or percentage read as 0 (dict.get) instead of
\* raising.
TierStepGetDefault(volume, values) ==
    LET percentage == IF HasKey(values, "percentage") THEN Get(values, "percentage") ELSE FromInt(0)
        tier_price == IF HasKey(values, "price") THEN Get(values, "price") ELSE FromInt(0)
    IN  IF IsNone(volume) \/ IsNone(percentage) \/ IsNone(tier_price)
        THEN [error |-> TypeError, tier_revenue |-> None]
        ELSE [error |-> NoError, tier_revenue |-> Mul(Mul(volume, percentage), tier_price)]

\* The revenue of one tier, or the error its computation raises: KeyError
\* for a key that is lacking, TypeError for an operand that is None.
\* 'percentage' is read and multiplied first, then 'price'.
TierStep(volume, values) ==
    IF ~HasKey(values, "percentage")
    THEN [error |-> KeyError("percentage"), tier_revenue |-> None]
    ELSE IF IsNone(volume) \/ IsNone(Get(values, "percentage"))
    THEN [error |-> TypeError, tier_revenue |-> None]
    ELSE IF ~HasKey(values, "price")
    THEN [error |-> KeyError("price"), tier_revenue |-> None]
    ELSE IF IsNone(Get(values, "price"))
    THEN [error |-> TypeError, tier_revenue |-> None]
    ELSE LET tier_volume == Mul(volume, Get(values, "percentage"))
             tier_price == Get(values, "price")
         IN  [error |-> NoError, tier_revenue |-> Mul(tier_volume, tier_price)]

RECURSIVE TierLoopInsideIf(_, _, _, _)
\* A slip: the revenue added to the total inside the if, so that Full
\* Charges is left out of the total too.
TierLoopInsideIf(volume, tiers, total_revenue, revenues) ==
    IF tiers = <<>>
    THEN [error |-> NoError, total_revenue |-> total_revenue, tier_revenues |-> revenues]
    ELSE LET tier == Head(tiers).k
             step == TierStep(volume, Head(tiers).v)
         IN  IF step.error # NoError
             THEN [error |-> step.error, total_revenue |-> total_revenue, tier_revenues |-> revenues]
             ELSE IF tier # "Full Charges"
             THEN TierLoopInsideIf(volume, Tail(tiers), Add(total_revenue, step.tier_revenue),
                                   DictSet(revenues, tier, step.tier_revenue))
             ELSE TierLoopInsideIf(volume, Tail(tiers), total_revenue, revenues)

RECURSIVE TierLoop(_, _, _, _)
\* The loop over the tiers of one service, from the total and the
\* tier_revenues so far. It stops at the first tier that raises.
TierLoop(volume, tiers, total_revenue, revenues) ==
    IF tiers = <<>>
    THEN [error |-> NoError, total_revenue |-> total_revenue, tier_revenues |-> revenues]
    ELSE LET tier == Head(tiers).k
             step == TierStep(volume, Head(tiers).v)
         IN  IF step.error # NoError
             THEN [error |-> step.error, total_revenue |-> total_revenue, tier_revenues |-> revenues]
             ELSE TierLoop(volume, Tail(tiers), Add(total_revenue, step.tier_revenue),
                           IF tier # FullCharges
                           THEN DictSet(revenues, tier, step.tier_revenue)
                           ELSE revenues)

\* A slip: the cost of one unit charged once, whatever the volume.
TotalVariableCostsOfOneUnit(variable_cost_per_unit, volume) == variable_cost_per_unit

TotalVariableCosts(variable_cost_per_unit, volume) == Mul(variable_cost_per_unit, volume)

TotalCosts(total_variable_costs, fixed) == Add(total_variable_costs, fixed)

\* A slip: the operands of the subtraction exchanged.
ProfitOperandsExchanged(total_revenue, total_costs) == Sub(total_costs, total_revenue)

Profit(total_revenue, total_costs) == Sub(total_revenue, total_costs)

\* The dict appended to service_data for one service.
ServiceRow(service, total_revenue, revenues, fixed) ==
    LET total_variable_costs == TotalVariableCosts(service.variable_cost_per_unit, service.volume)
        total_costs == TotalCosts(total_variable_costs, fixed)
        profit == Profit(total_revenue, total_costs)
    IN  DictUpdate(<<>>,
            <<[k |-> "Service", v |-> Str(service.service_name)],
              [k |-> "Volume", v |-> service.volume]>>
            \o revenues \o
            <<[k |-> "Total Revenue", v |-> total_revenue],
              [k |-> "Total Variable Costs", v |-> total_variable_costs],
              [k |-> "Fixed Costs", v |-> fixed],
              [k |-> "Total Costs", v |-> total_costs],
              [k |-> "Profit", v |-> profit]>>)

\* A slip: a service without a schedule entry read as one without tiers
\* (dict.get) instead of raising.
ServicePassGetDefault(service, schedule, fixed) ==
    LET loop == TierLoop(service.volume,
                         IF HasKey(schedule, service.service_name)
                         THEN Get(schedule, service.service_name) ELSE <<>>,
                         FromInt(0), <<>>)
    IN  IF loop.error # NoError
        THEN [error |-> loop.error, row |-> <<>>, tier_revenues |-> loop.tier_revenues]
        ELSE IF IsNone(service.variable_cost_per_unit) \/ IsNone(service.volume)
        THEN [error |-> TypeError, row |-> <<>>, tier_revenues |-> loop.tier_revenues]
        ELSE [error |-> NoError,
              row |-> ServiceRow(service, loop.total_revenue, loop.tier_revenues, fixed),
              tier_revenues |-> loop.tier_revenues]

\* The body of the loop for one service: the error it raises (the lookup of
\* the schedule entry, a tier, or the product of cost and volume), or the row
\* it appends; and the tier_revenues it leaves behind.
ServicePass(service, schedule, fixed) ==
    IF ~HasKey(schedule, service.service_name)
    THEN [error |-> KeyError(service.service_name), row |-> <<>>, tier_revenues |-> <<>>]
    ELSE LET loop == TierLoop(service.volume, Get(schedule, service.service_name),
                              FromInt(0), <<>>)
         IN  IF loop.error # NoError
             THEN [error |-> loop.error, row |-> <<>>, tier_revenues |-> loop.tier_revenues]
             ELSE IF IsNone(service.variable_cost_per_unit) \/ IsNone(service.volume)
             THEN [error |-> TypeError, row |-> <<>>, tier_revenues |-> loop.tier_revenues]
             ELSE [error |-> NoError,
                   row |-> ServiceRow(service, loop.total_revenue, loop.tier_revenues, fixed),
                   tier_revenues |-> loop.tier_revenues]

RECURSIVE UnionKeys(_, _)
\* The columns pandas gives a frame built from dicts: every key, in the
\* order of its first appearance.
UnionKeys(rows, acc) ==
    IF rows = <<>> THEN acc
    ELSE LET new == SelectSeq(Keys(Head(rows)),
                              LAMBDA key : \A j \in 1..Len(acc) : acc[j] # key)
         IN  UnionKeys(Tail(rows), acc \o new)

\* pd.DataFrame(service_data): a key a row lacks reads NaN.
DataFrame(rows) ==
    LET columns == UnionKeys(rows, <<>>)
    IN  [columns |-> columns,
         rows |-> [r \in 1..Len(rows) |->
                     [c \in 1..Len(columns) |->
                        IF HasKey(rows[r], columns[c]) THEN Get(rows[r], columns[c]) ELSE NaN]]]

ColumnOrder(revenues) ==
    <<"Service", "Volume">> \o Keys(revenues)
    \o <<"Total Revenue", "Total Variable Costs", "Fixed Costs", "Total Costs", "Profit">>

HasColumn(df, column) == \E c \in 1..Len(df.columns) : df.columns[c] = column

ColumnIndex(df, column) == CHOOSE c \in 1..Len(df.columns) : df.columns[c] = column

\* df[column_order], every name of column_order a column of df
SelectColumns(df, column_order) ==
    [columns |-> column_order,
     rows |-> [r \in 1..Len(df.rows) |->
                 [c \in 1..Len(column_order) |-> df.rows[r][ColumnIndex(df, column_order[c])]]]]

\* df[column] as the list of its values
Column(df, column) == [r \in 1..Len(df.rows) |-> df.rows[r][ColumnIndex(df, column)]]


(***************************************************************************)
(* The caller's inputs: a list of services with distinct names, each with  *)
(* the schedule entry of its profile, and a fixed-cost pool.               *)
(***************************************************************************)
ServiceList(n, reversed, prof) ==
    [j \in 1..n |->
       [service_name |-> ServiceNames[IF reversed THEN n + 1 - j ELSE j],
        volume |-> prof[j].volume,
        variable_cost_per_unit |-> prof[j].variable_cost_per_unit]]

RECURSIVE Schedule(_, _, _)
Schedule(list, prof, j) ==
    IF j > Len(list) THEN <<>>
    ELSE (IF prof[j].present
          THEN <<[k |-> list[j].service_name, v |-> prof[j].tiers]>>
          ELSE <<>>) \o Schedule(list, prof, j + 1)

Init ==
    /\ \E n \in 0..MaxServices, reversed \in BOOLEAN :
         \E prof \in [1..n -> Profiles] :
            /\ services = ServiceList(n, reversed, prof)
            /\ sliding_fee_schedule = Schedule(ServiceList(n, reversed, prof), prof, 1)
    /\ total_fixed_costs \in FixedCosts
    /\ pc = "start"
    /\ idx = 0
    /\ service_data = <<>>
    /\ fixed_cost_per_service = None
    /\ tier_revenues = <<>>
    /\ results_df = NoFrame
    /\ raised = NoError
    /\ bars = <<>>
    /\ log = <<>>
    /\ callbacks = [c \in Callbacks |-> Idle]

\* What log keeps of a finished call.
Outcome(df, error) ==
    [services |-> services, sliding_fee_schedule |-> sliding_fee_schedule,
     total_fixed_costs |-> total_fixed_costs, results_df |-> df, raised |-> error]

\* A slip: the caller's schedule given an empty entry for a service it lacks
\* (dict.setdefault).
ArgumentsSetDefault ==
    /\ sliding_fee_schedule' =
          IF pc = "loop" /\ idx < Len(services)
             /\ ~HasKey(sliding_fee_schedule, services[idx + 1].service_name)
          THEN Append(sliding_fee_schedule, [k |-> services[idx + 1].service_name, v |-> <<>>])
          ELSE sliding_fee_schedule
    /\ UNCHANGED <<services, total_fixed_costs>>

\* The engine assigns to no item of its arguments: it reads them.
ArgumentsOnlyRead == UNCHANGED inputs

\* A slip: no list made for the call, the rows of the call before kept.
InvokeKeepingRows ==
    /\ pc = "start"
    /\ idx' = 0
    /\ tier_revenues' = <<>>
    /\ IF Len(services) = 0
       THEN /\ raised' = ZeroDivisionError
            /\ pc' = "raised"
            /\ log' = Append(log, Outcome(NoFrame, ZeroDivisionError))
            /\ UNCHANGED fixed_cost_per_service
       ELSE /\ fixed_cost_per_service' = FixedCostPerService(total_fixed_costs, Len(services))
            /\ pc' = "loop"
            /\ UNCHANGED <<raised, log>>
    /\ ArgumentsOnlyRead
    /\ UNCHANGED <<service_data, results_df, bars, callbacks>>

\* A slip: the division guarded, so that no services give an empty table.
InvokeGuardingDivision ==
    /\ pc = "start"
    /\ service_data' = <<>>
    /\ idx' = 0
    /\ tier_revenues' = <<>>
    /\ fixed_cost_per_service' =
          IF Len(services) = 0 THEN FromInt(0)
          ELSE FixedCostPerService(total_fixed_costs, Len(services))
    /\ pc' = "loop"
    /\ ArgumentsOnlyRead
    /\ UNCHANGED <<raised, log, results_df, bars, callbacks>>

\* The call, and the engine up to its loop: the division by the number of
\* services raises when there is none.
Invoke ==
    /\ pc = "start"
    /\ service_data' = <<>>
    /\ idx' = 0
    /\ tier_revenues' = <<>>
    /\ IF FixedCostError(total_fixed_costs, Len(services)) # NoError
       THEN /\ raised' = FixedCostError(total_fixed_costs, Len(services))
            /\ pc' = "raised"
            /\ log' = Append(log, Outcome(NoFrame, FixedCostError(total_fixed_costs, Len(services))))
            /\ UNCHANGED fixed_cost_per_service
       ELSE /\ fixed_cost_per_service' = FixedCostPerService(total_fixed_costs, Len(services))
            /\ pc' = "loop"
            /\ UNCHANGED <<raised, log>>
    /\ ArgumentsOnlyRead
    /\ UNCHANGED <<results_df, bars, callbacks>>

\* One pass of the loop over the services.
ProcessService ==
    /\ pc = "loop"
    /\ idx < Len(services)
    /\ LET pass == ServicePass(services[idx + 1], sliding_fee_schedule, fixed_cost_per_service)
       IN  IF pass.error # NoError
           THEN /\ raised' = pass.error
                /\ pc' = "raised"
                /\ log' = Append(log, Outcome(NoFrame, pass.error))
                /\ UNCHANGED <<idx, service_data, tier_revenues>>
           ELSE /\ service_data' = Append(service_data, pass.row)
                /\ tier_revenues' = pass.tier_revenues
                /\ idx' = idx + 1
                /\ UNCHANGED <<pc, raised, log>>
    /\ ArgumentsOnlyRead
    /\ UNCHANGED <<fixed_cost_per_service, results_df, bars, callbacks>>

\* A slip: the return indented into the loop, taken after the first pass.
ReturnInsideLoop ==
    /\ pc = "loop"
    /\ idx >= 1
    /\ LET df == SelectColumns(DataFrame(service_data), ColumnOrder(tier_revenues))
       IN  /\ results_df' = df
           /\ log' = Append(log, Outcome(df, NoError))
    /\ pc' = "returned"
    /\ ArgumentsOnlyRead
    /\ UNCHANGED <<locals, raised, bars, callbacks>>

\* A slip: the frame returned as pandas built it, its columns not reordered.
ReturnFrameAsBuilt ==
    /\ pc = "loop"
    /\ idx = Len(services)
    /\ LET df == DataFrame(service_data)
       IN  /\ results_df' = df
           /\ log' = Append(log, Outcome(df, NoError))
    /\ pc' = "returned"
    /\ ArgumentsOnlyRead
    /\ UNCHANGED <<locals, raised, bars, callbacks>>

\* The frame, its columns reordered, returned to the caller.
Return ==
    /\ pc = "loop"
    /\ idx = Len(services)
    /\ LET df == SelectColumns(DataFrame(service_data), ColumnOrder(tier_revenues))
       IN  /\ results_df' = df
           /\ log' = Append(log, Outcome(df, NoError))
    /\ pc' = "returned"
    /\ ArgumentsOnlyRead
    /\ UNCHANGED <<locals, raised, bars, callbacks>>

\* plt.bar(services, profits): one bar per row, in the rows' order.
PlotBars(df) ==
    [r \in 1..Len(df.rows) |->
       [label |-> Column(df, "Service")[r], height |-> Column(df, "Profit")[r]]]

plot_profit_per_product ==
    /\ pc = "returned"
    /\ bars' = PlotBars(results_df)
    /\ pc' = "plotted"
    /\ UNCHANGED <<inputs, locals, results_df, raised, log, callbacks>>

\* The caller calls again, with the objects it called with before.
CallAgain ==
    /\ pc \in {"plotted", "raised"}
    /\ Len(log) < MaxCalls
    /\ pc' = "start"
    /\ results_df' = NoFrame
    /\ raised' = NoError
    /\ bars' = <<>>
    /\ UNCHANGED <<inputs, locals, log, callbacks>>

\* The caller calls again with another fixed-cost pool.
CallWithOtherFixedCosts ==
    /\ pc \in {"plotted", "raised"}
    /\ Len(log) < MaxCalls
    /\ total_fixed_costs' = Neg(total_fixed_costs)
    /\ pc' = "start"
    /\ results_df' = NoFrame
    /\ raised' = NoError
    /\ bars' = <<>>
    /\ UNCHANGED <<services, sliding_fee_schedule, locals, log, callbacks>>

Next == Invoke \/ ProcessService \/ Return \/ plot_profit_per_product

Spec == Init /\ [][Next]_vars

NextRepeat == Next \/ CallAgain \/ CallWithOtherFixedCosts

\* The repeated calls start from one fixed-cost pool; the caller's change of
\* it brings the other.
InitRepeat == Init /\ total_fixed_costs = FromInt(7)

SpecRepeat == InitRepeat /\ [][NextRepeat]_vars


(***************************************************************************)
(* Properties.                                                             *)
(***************************************************************************)
Returned == pc \in {"returned", "plotted"}

Rows == 1..Len(results_df.rows)

\* The value of a column in the r-th row of the returned table.
Cell(r, column) == Column(results_df, column)[r]

RECURSIVE SumSeq(_)
\* The sum of a list of numbers, added left to right from 0.
SumSeq(xs) ==
    IF xs = <<>> THEN FromInt(0)
    ELSE Add(SumSeq(SubSeq(xs, 1, Len(xs) - 1)), xs[Len(xs)])

\* |a - b| and |c| as integers on one scale: the exact values, unrounded.
MinEx(a, b, c) ==
    LET ab == IF Ex(a) < Ex(b) THEN Ex(a) ELSE Ex(b)
    IN  IF ab < Ex(c) THEN ab ELSE Ex(c)

ExactDistance(a, b, c) ==
    Abs(a.m * 2 ^ (Ex(a) - MinEx(a, b, c)) - b.m * 2 ^ (Ex(b) - MinEx(a, b, c)))

ExactSize(a, b, c) == Abs(c.m) * 2 ^ (Ex(c) - MinEx(a, b, c))

\* C1 (as amended): in every returned row, total variable costs are
\* variable_cost_per_unit * volume, total costs are total variable costs +
\* fixed costs, and profit is total revenue - total costs, each operation
\* rounded once.
C1_ProfitIsRevenueMinusTotalCosts ==
    Returned =>
        \A r \in Rows :
            /\ Cell(r, "Total Variable Costs")
                 = Mul(services[r].variable_cost_per_unit, services[r].volume)
            /\ Cell(r, "Total Costs")
                 = Add(Cell(r, "Total Variable Costs"), Cell(r, "Fixed Costs"))
            /\ Cell(r, "Profit") = Sub(Cell(r, "Total Revenue"), Cell(r, "Total Costs"))

\* C1 as claimed: profit is total revenue - total variable costs - fixed
\* costs, exactly.
C1_Original ==
    Returned =>
        \A r \in Rows :
            /\ Cell(r, "Total Variable Costs")
                 = Mul(services[r].variable_cost_per_unit, services[r].volume)
            /\ Cell(r, "Total Costs")
                 = Add(Cell(r, "Total Variable Costs"), Cell(r, "Fixed Costs"))
            /\ Cell(r, "Profit")
                 = Sub(Sub(Cell(r, "Total Revenue"), Cell(r, "Total Variable Costs")),
                       Cell(r, "Fixed Costs"))

\* A returned table of several rows, one of them with revenue, variable
\* costs, fixed costs and a profit that are all not zero.
C1_Witness ==
    /\ Returned
    /\ Len(results_df.rows) >= 2
    /\ \E r \in Rows :
          /\ ~IsZero(Cell(r, "Total Revenue"))
          /\ ~IsZero(Cell(r, "Total Variable Costs"))
          /\ ~IsZero(Cell(r, "Fixed Costs"))
          /\ ~IsZero(Cell(r, "Profit"))

RECURSIVE TierSum(_, _)
\* volume * percentage * price summed over the tiers of a tier set, in
\* insertion order, every tier included.
TierSum(volume, tiers) ==
    IF tiers = <<>> THEN FromInt(0)
    ELSE Add(TierSum(volume, SubSeq(tiers, 1, Len(tiers) - 1)),
             Mul(Mul(volume, Get(tiers[Len(tiers)].v, "percentage")),
                 Get(tiers[Len(tiers)].v, "price")))

\* C2: in every returned row, total revenue is the sum over all the tiers of
\* the service's tier set, Full Charges included, of volume * percentage *
\* price; Full Charges is no column of the table.
C2_TotalRevenueSumsAllTiers ==
    Returned =>
        /\ \A r \in Rows :
              Cell(r, "Total Revenue")
                = TierSum(services[r].volume,
                          Get(sliding_fee_schedule, services[r].service_name))
        /\ ~HasColumn(results_df, FullCharges)

\* A returned row of a service whose tier set has a Full Charges tier that
\* brings revenue, beside another tier that does.
C2_Witness ==
    /\ Returned
    /\ \E r \in Rows :
          LET tiers == Get(sliding_fee_schedule, services[r].service_name)
          IN  /\ HasKey(tiers, FullCharges)
              /\ ~IsZero(Mul(Mul(services[r].volume, Get(Get(tiers, FullCharges), "percentage")),
                             Get(Get(tiers, FullCharges), "price")))
              /\ \E c \in 1..Len(results_df.columns) :
                    /\ HasKey(tiers, results_df.columns[c])
                    /\ ~IsZero(results_df.rows[r][c])
                    /\ results_df.rows[r][c] # Cell(r, "Total Revenue")

\* C3 (as amended): every returned row carries the same fixed costs,
\* total_fixed_costs / number of services rounded once, whatever the
\* service's volume, cost and tiers; their sum is total_fixed_costs up to
\* rounding: |sum - total| <= n / (2^Prec - n) * |total|.
C3_EvenSplitWithinTolerance ==
    Returned =>
        /\ \A r \in Rows :
              Cell(r, "Fixed Costs") = Div(total_fixed_costs, FromInt(Len(services)))
        /\ LET sum == SumSeq(Column(results_df, "Fixed Costs"))
               n == Len(services)
           IN  ExactDistance(sum, total_fixed_costs, total_fixed_costs) * (2 ^ Prec - n)
                 <= n * ExactSize(sum, total_fixed_costs, total_fixed_costs)

\* C3 as claimed: the fixed costs of the rows sum to total_fixed_costs.
C3_Original ==
    Returned =>
        /\ \A r \in Rows :
              Cell(r, "Fixed Costs") = Div(total_fixed_costs, FromInt(Len(services)))
        /\ SumSeq(Column(results_df, "Fixed Costs")) = total_fixed_costs

\* A returned table of three rows or more, of services that differ in
\* volume and in cost, with a negative fixed-cost pool.
C3_Witness ==
    /\ Returned
    /\ Len(results_df.rows) >= 3
    /\ total_fixed_costs.m < 0
    /\ \E q, r \in Rows :
          /\ services[q].volume # services[r].volume
          /\ services[q].variable_cost_per_unit # services[r].variable_cost_per_unit


Finished == pc \in {"returned", "plotted", "raised"}

Listed == 1..Len(services)

\* The j-th service has no entry in the schedule.
Missing(j) == ~HasKey(sliding_fee_schedule, services[j].service_name)

\* The j-th service has an entry, with a tier that lacks its price or its
\* percentage.
Malformed(j) ==
    /\ ~Missing(j)
    /\ LET tiers == Get(sliding_fee_schedule, services[j].service_name)
       IN  \E t \in 1..Len(tiers) :
              ~HasKey(tiers[t].v, "price") \/ ~HasKey(tiers[t].v, "percentage")

C7_AllOrNothing ==
    /\ pc = "raised" => (raised # NoError /\ results_df = NoFrame /\ bars = <<>>)
    /\ Returned => (raised = NoError /\ Len(results_df.rows) = Len(services))
    /\ results_df # NoFrame => Returned

\* A call has raised on a later service, with rows made for the services
\* before it that the caller does not get.
C7_Witness ==
    /\ pc = "raised"
    /\ Len(service_data) >= 2
    /\ results_df = NoFrame


\* C8: the engine and the presenter read their inputs and store nothing
\* into them: every step from the call to the plot, of a call that returns
\* or of one that raises, leaves the services, the schedule and the fixed
\* costs as they were; only the caller, between two calls, changes them.
C8_InputsUnchanged ==
    [][(pc \in {"start", "loop", "returned"}) => (UNCHANGED inputs)]_vars

\* A second call on the same objects has finished and they are what the
\* log recorded when the first one ended.
C8_Witness ==
    /\ Finished
    /\ Len(log) >= 2
    /\ Len(services) >= 2
    /\ log[1].services = services
    /\ log[1].sliding_fee_schedule = sliding_fee_schedule

\* C9: two finished calls with the same services, schedule and fixed costs
\* gave the same outcome, the same table or the same error, whatever calls
\* came between them.
C9_SameInputsSameOutcome ==
    \A a, b \in 1..Len(log) :
        (/\ log[a].services = log[b].services
         /\ log[a].sliding_fee_schedule = log[b].sliding_fee_schedule
         /\ log[a].total_fixed_costs = log[b].total_fixed_costs)
        => (log[a].results_df = log[b].results_df /\ log[a].raised = log[b].raised)

\* Three calls have finished: the first and the third with the same inputs
\* and a table of several rows, the second with other fixed costs.
C9_Witness ==
    /\ Len(log) = 3
    /\ log[1].total_fixed_costs = log[3].total_fixed_costs
    /\ log[2].total_fixed_costs # log[1].total_fixed_costs
    /\ Len(log[1].results_df.rows) >= 2
    /\ log[2].results_df # log[1].results_df

\* C10: the table has one row for every service, the r-th row carries the
\* name and the volume of the r-th service, and the presenter draws one bar
\* for every row, in the rows' order, labelled with the service and as high
\* as its profit.
C10_Original ==
    pc = "plotted" =>
        /\ Len(results_df.rows) = Len(services)
        /\ Len(bars) = Len(services)
        /\ \A r \in Rows :
              /\ Cell(r, "Service") = Str(services[r].service_name)
              /\ Cell(r, "Volume") = services[r].volume
              /\ bars[r] = [label |-> Str(services[r].service_name), height |-> Cell(r, "Profit")]


\* The fields every row has, whatever the tiers.
FixedFields ==
    {"Service", "Volume", "Total Revenue", "Total Variable Costs", "Fixed Costs",
     "Total Costs", "Profit"}

\* The itemized entries of a row: its items that are none of the fixed
\* fields, in the row's order.
ItemizedEntries(row) == SelectSeq(row, LAMBDA item : item.k \notin FixedFields)

\* The tiers of a tier set that are not Full Charges, in insertion order.
ItemizedTiers(tiers) == SelectSeq(tiers, LAMBDA item : item.k # FullCharges)

\* The entries a tier set is to give: one for each tier that is not Full
\* Charges, worth volume * percentage * price.
TierEntries(volume, tiers) ==
    [t \in 1..Len(ItemizedTiers(tiers)) |->
       [k |-> ItemizedTiers(tiers)[t].k,
        v |-> Mul(Mul(volume, Get(ItemizedTiers(tiers)[t].v, "percentage")),
                  Get(ItemizedTiers(tiers)[t].v, "price"))]]

TierColumns == SubSeq(results_df.columns, 3, Len(results_df.columns) - 5)

\* C12: the columns of the returned table are Service, Volume, the names of
\* the tiers of the last service's tier set that are not Full Charges, in
\* that set's insertion order, then Total Revenue, Total Variable Costs,
\* Fixed Costs, Total Costs, Profit, whatever the tier sets of the services
\* before; a tier that only an earlier service has is no tier column.
C12_ColumnsFollowLastService ==
    Returned =>
        LET last == Get(sliding_fee_schedule, services[Len(services)].service_name)
        IN  /\ results_df.columns
                 = <<"Service", "Volume">> \o Keys(ItemizedTiers(last))
                   \o <<"Total Revenue", "Total Variable Costs", "Fixed Costs",
                        "Total Costs", "Profit">>
            /\ \A r \in Rows :
                  LET tiers == Get(sliding_fee_schedule, services[r].service_name)
                  IN  \A t \in 1..Len(tiers) :
                         ~HasKey(last, tiers[t].k)
                            => \A c \in 1..Len(TierColumns) : TierColumns[c] # tiers[t].k

\* A returned table of services whose tier sets differ: the first service
\* has a tier the last one lacks, the last one a tier that the first one
\* lacks, which reads NaN in the first row, and the second one the tiers of
\* the last in another order.
C12_Witness ==
    /\ Returned
    /\ Len(services) >= 3
    /\ LET last == Get(sliding_fee_schedule, services[Len(services)].service_name)
           first == Get(sliding_fee_schedule, services[1].service_name)
           second == Get(sliding_fee_schedule, services[2].service_name)
       IN  /\ \E t \in 1..Len(first) : first[t].k # FullCharges /\ ~HasKey(last, first[t].k)
           /\ \E c \in 1..Len(results_df.columns) :
                 /\ HasKey(last, results_df.columns[c])
                 /\ results_df.rows[1][c] = NaN
           /\ Len(ItemizedTiers(last)) >= 2
           /\ Keys(ItemizedTiers(second)) # Keys(ItemizedTiers(last))
           /\ \A t \in 1..Len(ItemizedTiers(second)) : HasKey(last, ItemizedTiers(second)[t].k)
           /\ \A t \in 1..Len(ItemizedTiers(last)) : HasKey(second, ItemizedTiers(last)[t].k)

\* C13: a service with volume 0 has a row with total revenue 0, total
\* variable costs 0 and profit -(fixed costs), the fixed costs being the
\* share of every service.
C13_ZeroVolume ==
    Returned =>
        \A r \in Rows :
            IsZero(services[r].volume) =>
                /\ Cell(r, "Total Revenue") = FromInt(0)
                /\ Cell(r, "Total Variable Costs") = FromInt(0)
                /\ Cell(r, "Fixed Costs") = Div(total_fixed_costs, FromInt(Len(services)))
                /\ Cell(r, "Profit") = Neg(Cell(r, "Fixed Costs"))

\* A returned table with a row of volume 0, with a cost per unit and fixed
\* costs that are not 0, beside a row that has revenue.
C13_Witness ==
    /\ Returned
    /\ \E q, r \in Rows :
          /\ IsZero(services[r].volume)
          /\ ~IsZero(services[r].variable_cost_per_unit)
          /\ ~IsZero(Cell(r, "Fixed Costs"))
          /\ ~IsZero(Cell(q, "Total Revenue"))


(***************************************************************************)
(* The dashboard (CVP_Dash.py).  Its services and sliding_fee_schedule are *)
(* the module's own objects; the layout declares one input field for every *)
(* volume, cost, price and percentage and one for the fixed costs, and     *)
(* update_graph gets their values as args, in the order of the State list. *)
(* Dash serves every request in a thread of its own: the frames of         *)
(* callbacks advance one statement at a time, in any order.                *)
(***************************************************************************)
\* Numbers of tiers a schedule entry of the dashboard has.
TierCounts == {1, 2}

\* The module's services and schedule when the dashboard starts: counts[q]
\* tiers for the q-th service.
DashServices(n) ==
    [q \in 1..n |->
       [service_name |-> ServiceNames[q], volume |-> FromInt(2),
        variable_cost_per_unit |-> FromInt(1)]]

DashSchedule(n, counts) ==
    [q \in 1..n |-> [k |-> ServiceNames[q], v |-> SubSeq(TiersStandard, 1, counts[q])]]

\* An input field: its id is '<service>-volume', '<service>-cost',
\* '<service>-<tier>-price', '<service>-<tier>-percentage' or
\* 'fixed-cost-input'.
Field(service_name, tier, property) ==
    [service |-> service_name, tier |-> tier, property |-> property]

ServiceStates(property) ==
    [q \in 1..Len(services) |-> Field(services[q].service_name, "", property)]

RECURSIVE TierStates(_, _)
\* for service in services for tier in sliding_fee_schedule[service]
TierStates(property, q) ==
    IF q > Len(services) THEN <<>>
    ELSE LET tiers == Get(sliding_fee_schedule, services[q].service_name)
         IN  [t \in 1..Len(tiers) |-> Field(services[q].service_name, tiers[t].k, property)]
             \o TierStates(property, q + 1)

\* The State list of the callback: args[k] is the value of the k-th field.
StateList ==
    ServiceStates("volume") \o ServiceStates("cost")
    \o TierStates("price", 1) \o TierStates("percentage", 1)
    \o <<Field("", "", "fixed-cost-input")>>

\* The forms a user submits.  A form gives every field a number of its own,
\* and no field the number the other form gives it.
Forms == {1, 2}

FieldValue(form, k) == Round(4 + ((k + form - 2) % 4), ((k + form - 2) \div 4) - 4)

\* The fields a user may leave empty (0: none): the first volume, the first
\* price, the fixed costs.  An empty number field has the value None.
EmptyFields == {0, 1, 2 * Len(services) + 1, Len(StateList)}

Args(form, empty) ==
    [k \in 1..Len(StateList) |-> IF k = empty THEN None ELSE FieldValue(form, k)]

engine ==
    <<total_fixed_costs, pc, idx, service_data, fixed_cost_per_service, tier_revenues,
      results_df, raised, bars, log>>

InitDash ==
    /\ \E n \in 1..MaxServices :
         \E counts \in [1..n -> TierCounts] :
            /\ services = DashServices(n)
            /\ sliding_fee_schedule = DashSchedule(n, counts)
    /\ total_fixed_costs = FromInt(7)
    /\ pc = "start"
    /\ idx = 0
    /\ service_data = <<>>
    /\ fixed_cost_per_service = None
    /\ tier_revenues = <<>>
    /\ results_df = NoFrame
    /\ raised = NoError
    /\ bars = <<>>
    /\ log = <<>>
    /\ callbacks = [c \in Callbacks |-> Idle]

\* The repository's schedule gives every service the same number of tiers.
\* A layout of nine fields at most: every order of the two requests'
\* statements is followed.
InitDashTwo ==
    /\ InitDash
    /\ Len(services) >= 1
    /\ Len(StateList) <= 9
    /\ \A q \in 1..Len(services) :
          Len(sliding_fee_schedule[q].v) = Len(sliding_fee_schedule[1].v)

Called(n_clicks, args) == [Idle EXCEPT !.pc = "called", !.n_clicks = n_clicks, !.args = args]

\* A request comes when no other is being served: the button was clicked
\* (n_clicks > 0) or the page was loaded (n_clicks = 0).
Submit ==
    /\ \A c \in Callbacks : callbacks[c].pc \in {"idle", "done", "raised"}
    /\ \E n_clicks \in {0, 1}, form \in Forms, empty \in EmptyFields :
          callbacks' = [callbacks EXCEPT ![1] = Called(n_clicks, Args(form, empty))]
    /\ UNCHANGED <<services, sliding_fee_schedule, engine>>

\* Two users click at once, each with a form of their own.
SubmitTwo ==
    /\ \A c \in Callbacks : callbacks[c].pc = "idle"
    /\ callbacks' = [c \in Callbacks |-> Called(1, Args(c, 0))]
    /\ UNCHANGED <<services, sliding_fee_schedule, engine>>

RECURSIVE ToSchedule(_, _, _)
\* The loops over the services and their tiers at (i, j): at the tier to
\* write next, or past the loops.
ToSchedule(frame, i, j) ==
    IF i >= Len(services) THEN [frame EXCEPT !.pc = "fixed", !.i = i, !.j = j]
    ELSE IF j < Len(Get(sliding_fee_schedule, services[i + 1].service_name))
    THEN [frame EXCEPT !.pc = "price", !.i = i, !.j = j]
    ELSE ToSchedule(frame, i + 1, 0)

\* The loop over the services at arg_index.
ToServices(frame, arg_index) ==
    IF arg_index < Len(services)
    THEN [frame EXCEPT !.pc = "volume", !.arg_index = arg_index]
    ELSE ToSchedule([frame EXCEPT !.arg_index = arg_index], 0, 0)

Raise(frame, error) == [frame EXCEPT !.pc = "raised", !.raised = error]

\* A slip: no test of n_clicks.
CheckClicksAbsent(c) ==
    /\ callbacks[c].pc = "called"
    /\ callbacks' = [callbacks EXCEPT ![c] = ToServices(callbacks[c], 0)]
    /\ UNCHANGED <<services, sliding_fee_schedule, engine>>

\* if n_clicks == 0: return dash.no_update, dash.no_update
CheckClicks(c) ==
    /\ callbacks[c].pc = "called"
    /\ callbacks' =
          [callbacks EXCEPT ![c] =
              IF callbacks[c].n_clicks = 0
              THEN [callbacks[c] EXCEPT !.pc = "done", !.output = NoUpdate]
              ELSE ToServices(callbacks[c], 0)]
    /\ UNCHANGED <<services, sliding_fee_schedule, engine>>

\* service['volume'] = args[arg_index]
WriteVolume(c) ==
    LET frame == callbacks[c]
    IN  /\ frame.pc = "volume"
        /\ services' = [services EXCEPT ![frame.arg_index + 1].volume =
                                            frame.args[frame.arg_index + 1]]
        /\ callbacks' = [callbacks EXCEPT ![c].pc = "cost"]
        /\ UNCHANGED <<sliding_fee_schedule, engine>>

\* service['variable_cost_per_unit'] = args[len(services) + arg_index]
WriteCost(c) ==
    LET frame == callbacks[c]
    IN  /\ frame.pc = "cost"
        /\ services' = [services EXCEPT ![frame.arg_index + 1].variable_cost_per_unit =
                                            frame.args[Len(services) + frame.arg_index + 1]]
        /\ callbacks' = [callbacks EXCEPT ![c] = ToServices(frame, frame.arg_index + 1)]
        /\ UNCHANGED <<sliding_fee_schedule, engine>>

\* sliding_fee_schedule[service_name][tier][key] = value
SetTierValue(schedule, service_name, tier, key, value) ==
    DictSet(schedule, service_name,
            DictSet(Get(schedule, service_name), tier,
                    DictSet(Get(Get(schedule, service_name), tier), key, value)))

\* The index of the price of the j-th tier of the i-th service in args, as
\* update_graph computes it (from 0).
PriceIndex(i, j) ==
    LET tiers == Get(sliding_fee_schedule, services[i + 1].service_name)
    IN  2 * Len(services) + i * Len(tiers) + j

PercentageIndex(i, j) ==
    LET tiers == Get(sliding_fee_schedule, services[i + 1].service_name)
    IN  2 * Len(services) + Len(services) * Len(tiers) + i * Len(tiers) + j

\* sliding_fee_schedule[service_name][tier]['price'] = args[...]
WritePrice(c) ==
    LET frame == callbacks[c]
        service_name == services[frame.i + 1].service_name
        tier == Get(sliding_fee_schedule, service_name)[frame.j + 1].k
        index == PriceIndex(frame.i, frame.j)
    IN  /\ frame.pc = "price"
        /\ IF index >= Len(frame.args)
           THEN /\ callbacks' = [callbacks EXCEPT ![c] = Raise(frame, IndexError)]
                /\ UNCHANGED sliding_fee_schedule
           ELSE /\ sliding_fee_schedule' =
                      SetTierValue(sliding_fee_schedule, service_name, tier, "price",
                                   frame.args[index + 1])
                /\ callbacks' = [callbacks EXCEPT ![c].pc = "percentage"]
        /\ UNCHANGED <<services, engine>>

\* sliding_fee_schedule[service_name][tier]['percentage'] = args[...]
WritePercentage(c) ==
    LET frame == callbacks[c]
        service_name == services[frame.i + 1].service_name
        tier == Get(sliding_fee_schedule, service_name)[frame.j + 1].k
        index == PercentageIndex(frame.i, frame.j)
    IN  /\ frame.pc = "percentage"
        /\ IF index >= Len(frame.args)
           THEN /\ callbacks' = [callbacks EXCEPT ![c] = Raise(frame, IndexError)]
                /\ UNCHANGED sliding_fee_schedule
           ELSE /\ sliding_fee_schedule' =
                      SetTierValue(sliding_fee_schedule, service_name, tier, "percentage",
                                   frame.args[index + 1])
                /\ callbacks' = [callbacks EXCEPT ![c] = ToSchedule(frame, frame.i, frame.j + 1)]
        /\ UNCHANGED <<services, engine>>

\* fixed_costs = args[-1]
ReadFixedCosts(c) ==
    LET frame == callbacks[c]
    IN  /\ frame.pc = "fixed"
        /\ callbacks' = [callbacks EXCEPT ![c] =
                            [frame EXCEPT !.pc = "engine",
                                          !.fixed_costs = frame.args[Len(frame.args)]]]
        /\ UNCHANGED <<services, sliding_fee_schedule, engine>>

\* The call of the engine on the shared objects, up to its loop.
CallbackInvoke(c) ==
    LET frame == callbacks[c]
        error == FixedCostError(frame.fixed_costs, Len(services))
    IN  /\ frame.pc = "engine"
        /\ callbacks' = [callbacks EXCEPT ![c] =
              IF error # NoError
              THEN Raise([frame EXCEPT !.service_data = <<>>], error)
              ELSE [frame EXCEPT !.pc = "loop", !.service_data = <<>>, !.idx = 0,
                                 !.fixed_cost_per_service =
                                     FixedCostPerService(frame.fixed_costs, Len(services))]]
        /\ UNCHANGED <<services, sliding_fee_schedule, engine>>

\* One pass of the engine's loop, reading the shared objects as they are.
CallbackProcessService(c) ==
    LET frame == callbacks[c]
        pass == ServicePass(services[frame.idx + 1], sliding_fee_schedule,
                            frame.fixed_cost_per_service)
    IN  /\ frame.pc = "loop"
        /\ frame.idx < Len(services)
        /\ callbacks' = [callbacks EXCEPT ![c] =
              IF pass.error # NoError
              THEN Raise(frame, pass.error)
              ELSE [frame EXCEPT !.service_data = Append(frame.service_data, pass.row),
                                 !.tier_revenues = pass.tier_revenues,
                                 !.idx = frame.idx + 1]]
        /\ UNCHANGED <<services, sliding_fee_schedule, engine>>

\* The engine's frame, returned into results_df of update_graph.
CallbackReturn(c) ==
    LET frame == callbacks[c]
    IN  /\ frame.pc = "loop"
        /\ frame.idx = Len(services)
        /\ callbacks' = [callbacks EXCEPT ![c] =
              [frame EXCEPT !.pc = "sum",
                            !.results_df = SelectColumns(DataFrame(frame.service_data),
                                                         ColumnOrder(frame.tier_revenues))]]
        /\ UNCHANGED <<services, sliding_fee_schedule, engine>>

\* The first number plus the sum of the others.
SumHeadRest(xs) == IF xs = <<>> THEN FromInt(0) ELSE Add(Head(xs), SumSeq(Tail(xs)))

\* results_df['Profit'].sum(): the order in which the library adds is not
\* the source's; for a short column it is one of these two.
ColumnSums(xs) == {SumSeq(xs), SumHeadRest(xs)}

\* f"${x:,.2f}": the sign and the cents, the exact value rounded to the
\* nearest cent, a tie to the even one.
Money(x) ==
    LET N == Abs(x.m) * 100 * (IF x.e >= 0 THEN 2 ^ x.e ELSE 1)
        D == IF x.e >= 0 THEN 1 ELSE 2 ^ (0 - x.e)
        q == N \div D
        r == N % D
        up == 2 * r > D \/ (2 * r = D /\ q % 2 = 1)
    IN  [sign |-> IF x.m < 0 THEN "-" ELSE "", cents |-> IF up THEN q + 1 ELSE q]

\* A slip: the revenues added up, not the profits.
FinishSummingRevenue(c) ==
    LET frame == callbacks[c]
    IN  /\ frame.pc = "sum"
        /\ \E total \in ColumnSums(Column(frame.results_df, "Total Revenue")) :
              callbacks' = [callbacks EXCEPT ![c] =
                  [frame EXCEPT !.pc = "done", !.total_profitability = total,
                                !.output = Update(PlotBars(frame.results_df), Money(total))]]
        /\ UNCHANGED <<services, sliding_fee_schedule, engine>>

\* total_profitability, the figure (one bar per row, the profit over the
\* service) and the return.
Finish(c) ==
    LET frame == callbacks[c]
    IN  /\ frame.pc = "sum"
        /\ \E total \in ColumnSums(Column(frame.results_df, "Profit")) :
              callbacks' = [callbacks EXCEPT ![c] =
                  [frame EXCEPT !.pc = "done", !.total_profitability = total,
                                !.output = Update(PlotBars(frame.results_df), Money(total))]]
        /\ UNCHANGED <<services, sliding_fee_schedule, engine>>

update_graph(c) ==
    \/ CheckClicks(c)
    \/ WriteVolume(c)
    \/ WriteCost(c)
    \/ WritePrice(c)
    \/ WritePercentage(c)
    \/ ReadFixedCosts(c)
    \/ CallbackInvoke(c)
    \/ CallbackProcessService(c)
    \/ CallbackReturn(c)
    \/ Finish(c)

NextDash == Submit \/ \E c \in Callbacks : update_graph(c)

\* The requests served one after the other.
SpecDash == InitDash /\ [][NextDash]_vars

NextDashTwo == SubmitTwo \/ \E c \in Callbacks : update_graph(c)

\* Two requests served at once.
SpecDashTwo == InitDashTwo /\ [][NextDashTwo]_vars


(***************************************************************************)
(* Properties of the dashboard.                                            *)
(***************************************************************************)
\* The place of a field in the State list, from 1.
Position(service_name, tier, property) ==
    CHOOSE k \in 1..Len(StateList) : StateList[k] = Field(service_name, tier, property)

\* The value args carries for a field.
Submitted(args, service_name, tier, property) ==
    args[Position(service_name, tier, property)]

\* update_graph has returned a figure and a text.
Done(c) == callbacks[c].pc = "done" /\ callbacks[c].output.kind = "update"

\* The engine has been called by update_graph.
InEngine(c) ==
    \/ callbacks[c].pc \in {"loop", "sum"}
    \/ callbacks[c].pc = "raised" /\ callbacks[c].raised # IndexError

\* A number the engine reads is None.
SomeNone(fixed_costs) ==
    \/ IsNone(fixed_costs)
    \/ \E q \in Listed :
          \/ IsNone(services[q].volume)
          \/ IsNone(services[q].variable_cost_per_unit)
          \/ LET tiers == Get(sliding_fee_schedule, services[q].service_name)
             IN  \E t \in 1..Len(tiers) :
                    IsNone(Get(tiers[t].v, "price")) \/ IsNone(Get(tiers[t].v, "percentage"))

\* C14: update_graph does not call the engine with a volume, a cost, a
\* price, a percentage or fixed costs that are None, the value of a field
\* left empty.
C14_Original ==
    \A c \in Callbacks : InEngine(c) => ~SomeNone(callbacks[c].fixed_costs)

\* The smallest exponent of a list of numbers and of one more.
RECURSIVE LeastEx(_, _)
LeastEx(xs, x) ==
    IF xs = <<>> THEN Ex(x)
    ELSE LET rest == LeastEx(Tail(xs), x)
         IN  IF Ex(Head(xs)) < rest THEN Ex(Head(xs)) ELSE rest

\* The numbers of a list as integers on the scale 2^e, unrounded; their sum
\* and the sum of their sizes.
RECURSIVE ExactSum(_, _)
ExactSum(xs, e) ==
    IF xs = <<>> THEN 0 ELSE Head(xs).m * 2 ^ (Ex(Head(xs)) - e) + ExactSum(Tail(xs), e)

RECURSIVE ExactSizes(_, _)
ExactSizes(xs, e) ==
    IF xs = <<>> THEN 0 ELSE Abs(Head(xs).m) * 2 ^ (Ex(Head(xs)) - e) + ExactSizes(Tail(xs), e)

\* x is the sum of xs up to the rounding of Len(xs) - 1 additions, in
\* whatever order they are made: |x - sum| <= k / (2^Prec - k) * sum of
\* sizes, k = Len(xs) - 1.
SumWithinTolerance(x, xs) ==
    LET e == LeastEx(xs, x)
        k == Len(xs) - 1
    IN  Abs(x.m * 2 ^ (Ex(x) - e) - ExactSum(xs, e)) * (2 ^ Prec - k) <= k * ExactSizes(xs, e)

\* text is x to the nearest cent.
NearestCent(text, x) ==
    LET D == IF x.e >= 0 THEN 1 ELSE 2 ^ (0 - x.e)
        N == Abs(x.m) * 100 * (IF x.e >= 0 THEN 2 ^ x.e ELSE 1)
    IN  /\ 2 * Abs(text.cents * D - N) <= D
        /\ text.sign = (IF x.m < 0 THEN "-" ELSE "")

\* C15 (as amended): the total_profitability of an update_graph that has
\* returned is the sum of the Profit column of the table its call of the
\* engine returned, up to the rounding of the additions, and the text is
\* that number to the nearest cent; every profit is total revenue - (total
\* variable costs + fixed costs), the fixed costs being the submitted fixed
\* costs / number of services.
C15_TotalIsSumOfProfits ==
    \A c \in Callbacks :
        Done(c) =>
            LET frame == callbacks[c]
                df == frame.results_df
            IN  /\ Len(df.rows) = Len(services)
                /\ SumWithinTolerance(frame.total_profitability, Column(df, "Profit"))
                /\ NearestCent(frame.output.children, frame.total_profitability)
                /\ \A r \in 1..Len(df.rows) :
                      /\ Column(df, "Fixed Costs")[r]
                           = Div(frame.args[Len(frame.args)], FromInt(Len(services)))
                      /\ Column(df, "Profit")[r]
                           = Sub(Column(df, "Total Revenue")[r],
                                 Add(Column(df, "Total Variable Costs")[r],
                                     Column(df, "Fixed Costs")[r]))

\* C15 as claimed: total_profitability is the sum of the profits and is
\* sum(total revenue) - sum(total variable costs) - fixed costs, exactly,
\* in one of the orders of adding.
C15_Original ==
    \A c \in Callbacks :
        Done(c) =>
            LET frame == callbacks[c]
                df == frame.results_df
            IN  /\ frame.total_profitability \in ColumnSums(Column(df, "Profit"))
                /\ \E revenue \in ColumnSums(Column(df, "Total Revenue")),
                      costs \in ColumnSums(Column(df, "Total Variable Costs")) :
                      frame.total_profitability
                        = Sub(Sub(revenue, costs), frame.args[Len(frame.args)])

\* An update_graph has returned the total of three services or more, with
\* profits that are not all of one sign, which add up to one number in one
\* order and to another in the other.
C15_Witness ==
    \E c \in Callbacks :
        /\ Done(c)
        /\ Len(callbacks[c].results_df.rows) >= 3
        /\ \E q, r \in 1..Len(callbacks[c].results_df.rows) :
              /\ Column(callbacks[c].results_df, "Profit")[q].m < 0
              /\ Column(callbacks[c].results_df, "Profit")[r].m > 0
        /\ SumSeq(Column(callbacks[c].results_df, "Profit"))
             # SumHeadRest(Column(callbacks[c].results_df, "Profit"))

\* C16: when an update_graph with n_clicks > 0 has ended, every volume,
\* cost, price and percentage of the shared services and schedule is the
\* value args carries for the field declared for it in the State list.
C16_Original ==
    \A c \in Callbacks :
        (callbacks[c].pc \in {"done", "raised"} /\ callbacks[c].n_clicks > 0) =>
            \A q \in Listed :
                LET service_name == services[q].service_name
                    tiers == Get(sliding_fee_schedule, service_name)
                    args == callbacks[c].args
                IN  /\ services[q].volume = Submitted(args, service_name, "", "volume")
                    /\ services[q].variable_cost_per_unit
                         = Submitted(args, service_name, "", "cost")
                    /\ \A t \in 1..Len(tiers) :
                          /\ Get(tiers[t].v, "price")
                               = Submitted(args, service_name, tiers[t].k, "price")
                          /\ Get(tiers[t].v, "percentage")
                               = Submitted(args, service_name, tiers[t].k, "percentage")

\* C17: an update_graph called with n_clicks = 0 takes one step, the return
\* of no_update for the graph and for the text: it writes nothing into the
\* shared services and schedule and its frame never reaches the call of the
\* engine, whatever its args.
C17_NoClickNoUpdate ==
    [][\A c \in Callbacks :
          (/\ callbacks[c].pc = "called"
           /\ callbacks[c].n_clicks = 0
           /\ callbacks'[c] # callbacks[c])
          => /\ callbacks'[c] = [callbacks[c] EXCEPT !.pc = "done", !.output = NoUpdate]
             /\ UNCHANGED <<services, sliding_fee_schedule>>]_vars

\* An update_graph with n_clicks = 0 has returned no_update, after an
\* earlier one has written the shared services, with args that differ from
\* what the services hold and a field left empty.
C17_Witness ==
    \E c \in Callbacks :
        /\ callbacks[c].pc = "done"
        /\ callbacks[c].n_clicks = 0
        /\ callbacks[c].output = NoUpdate
        /\ Len(services) >= 2
        /\ services[1].volume # FromInt(2)
        /\ callbacks[c].args[2] # services[2].volume
        /\ IsNone(callbacks[c].args[1])

\* The table the engine gives for services and a schedule without error.
Computed(list, schedule, total) ==
    LET fixed == FixedCostPerService(total, Len(list))
        pass == [q \in 1..Len(list) |-> ServicePass(list[q], schedule, fixed)]
    IN  SelectColumns(DataFrame([q \in 1..Len(list) |-> pass[q].row]),
                      ColumnOrder(pass[Len(list)].tier_revenues))

\* The services and the schedule with the values args carries for their
\* fields.
SubmittedServices(args) ==
    [q \in 1..Len(services) |->
       [service_name |-> services[q].service_name,
        volume |-> Submitted(args, services[q].service_name, "", "volume"),
        variable_cost_per_unit |-> Submitted(args, services[q].service_name, "", "cost")]]

SubmittedSchedule(args) ==
    [q \in 1..Len(sliding_fee_schedule) |->
       [k |-> sliding_fee_schedule[q].k,
        v |-> [t \in 1..Len(sliding_fee_schedule[q].v) |->
                 [k |-> sliding_fee_schedule[q].v[t].k,
                  v |-> Tier(Submitted(args, sliding_fee_schedule[q].k,
                                       sliding_fee_schedule[q].v[t].k, "price"),
                             Submitted(args, sliding_fee_schedule[q].k,
                                       sliding_fee_schedule[q].v[t].k, "percentage"))]]]]

\* C18: an update_graph that has returned, another being served at the same
\* time, returns the figure and the total of the values of its own args:
\* what the engine gives for the services and the schedule holding those
\* values and no others.
C18_Original ==
    \A c \in Callbacks :
        Done(c) =>
            LET args == callbacks[c].args
                df == Computed(SubmittedServices(args), SubmittedSchedule(args),
                               args[Len(args)])
            IN  /\ callbacks[c].output.figure = PlotBars(df)
                /\ \E total \in ColumnSums(Column(df, "Profit")) :
                      callbacks[c].output.children = Money(total)

====
